---- MODULE Spec2Model ----
(***************************************************************************)
(* Booking consistency core of energia_total / gym_reservas:               *)
(* ReservaService.crear_reserva, ReservaService.cancelar_reserva with      *)
(* _procesar_lista_espera, and ListaEsperaService.agregar_a_lista_espera,  *)
(* over the Clase / Reserva / ListaEspera tables.                          *)
(*                                                                         *)
(* Database semantics.  Every service method is @transaction.atomic: its   *)
(* writes become visible to other callers together, at commit, or not at   *)
(* all.  A statement reads the committed rows plus the transaction's own   *)
(* writes (read committed, the isolation Django uses on the server         *)
(* databases).  select_for_update() holds the Clase row until the          *)
(* transaction ends; an UPDATE holds its Reserva row until the transaction *)
(* ends.  A failed INSERT/UPDATE inside Model.save() marks the enclosing   *)
(* atomic block for rollback, also when the exception is then caught.      *)
(*                                                                         *)
(* Time is counted in hours; a day has HorasPorDia hours.                  *)
(***************************************************************************)
EXTENDS Integers, Sequences, FiniteSets, TLC

\* ---------------------------------------------------------------- bounds
NumSocios == 3
NumProcs == 3
MaxReservas == 3
MaxLista == 1

\* ------------------------------------------------------ program constants
LimiteReservas == 3
HorasCancelacion == 2
PesoReserva == 10
HorasPorDia == 24

Socios == 1..NumSocios
Nulo == -1
NoProc == 0

VARIABLES
    clase,      \* Clase rows: id -> [capacidad, fecha, hora_inicio, estado], and
                \* [sala, duracion] where the timetable is concerned
    socio,      \* User + Socio profile: id -> [perfil, estado_membresia, fecha_fin_membresia, date_joined]
    reservas,   \* committed Reserva rows, pk = index
    lista,      \* committed ListaEspera rows, pk = index
    now,        \* timezone.now(), in hours
    lock,       \* Clase row locks taken by select_for_update: id -> process or NoProc
    pc,         \* position of each request-handling worker
    tx,         \* arguments and locals of the call each worker is running
    ult,        \* value returned (or exception raised) by the step just taken, if it ended a call
    rt          \* observer of a create-then-cancel round trip made while no other call runs

vars == <<clase, socio, reservas, lista, now, lock, pc, tx, ult, rt>>

Procs == DOMAIN pc
Clases == DOMAIN clase

\* ------------------------------------------------------------- helpers
Hoy == now \div HorasPorDia

ConfirmadasClase(rs, c) ==
    {i \in 1..Len(rs) : rs[i].clase = c /\ rs[i].estado = "confirmada"}

\* get_cupos_disponibles as it would be without filter(estado='confirmada')
get_cupos_disponibles_toda_fila(rs, c) ==
    LET n == Cardinality({i \in 1..Len(rs) : rs[i].clase = c})
        d == clase[c].capacidad - n
    IN  IF d > 0 THEN d ELSE 0

\* Clase.get_cupos_disponibles
get_cupos_disponibles(rs, c) ==
    LET n == Cardinality(ConfirmadasClase(rs, c))
        d == clase[c].capacidad - n
    IN  IF d > 0 THEN d ELSE 0

\* Clase.esta_llena
esta_llena(rs, c) == get_cupos_disponibles(rs, c) <= 0

clase_datetime(c) == clase[c].fecha * HorasPorDia + clase[c].hora_inicio

\* Clase.puede_reservarse as it would be without the clase_datetime > ahora test
puede_reservarse_sin_hora(rs, c) ==
    /\ clase[c].estado = "programada"
    /\ ~esta_llena(rs, c)

\* Clase.puede_reservarse
puede_reservarse(rs, c) ==
    /\ clase[c].estado = "programada"
    /\ clase_datetime(c) > now
    /\ ~esta_llena(rs, c)

\* Socio.membresia_vigente as it would be without the fecha_fin_membresia test
membresia_vigente_sin_fecha(s) ==
    socio[s].estado_membresia = "activa"

\* Socio.membresia_vigente
membresia_vigente(s) ==
    /\ socio[s].estado_membresia = "activa"
    /\ socio[s].fecha_fin_membresia >= Hoy

\* Reserva.puede_cancelarse
puede_cancelarse(r) ==
    /\ r.estado = "confirmada"
    /\ now <= clase_datetime(r.clase) - HorasCancelacion

\* reservas_activas of LimiteReservasStrategy / ReservaRepository
ReservasActivas(rs, s) ==
    {i \in 1..Len(rs) : /\ rs[i].socio = s
                        /\ rs[i].estado = "confirmada"
                        /\ clase[rs[i].clase].fecha >= Hoy}

ConfirmadasSocio(rs, s) ==
    {i \in 1..Len(rs) : rs[i].socio = s /\ rs[i].estado = "confirmada"}

\* the priority formula as it would be without the reservas_previas term
CalcularPrioridad_sin_historial(rs, s) ==
    Hoy - socio[s].date_joined

\* priority formula of Reserva.save and agregar_a_lista_espera
CalcularPrioridad(rs, s) ==
    (Hoy - socio[s].date_joined) + Cardinality(ConfirmadasSocio(rs, s)) * PesoReserva

\* ------------------------------------------------- validation strategies
ClaseDisponibleStrategy(rs, s, c) ==
    IF ~puede_reservarse(rs, c) THEN <<"clase_no_disponible">> ELSE <<>>

MembresiaValidationStrategy(rs, s, c) ==
    IF ~socio[s].perfil THEN <<"sin_perfil">>
    ELSE IF ~membresia_vigente(s) THEN <<"membresia_no_vigente">>
    ELSE <<>>

\* CuposDisponiblesStrategy as it would be if it never failed
CuposDisponiblesStrategy_sin_chequeo(rs, s, c) == <<>>

CuposDisponiblesStrategy(rs, s, c) ==
    IF get_cupos_disponibles(rs, c) <= 0 THEN <<"sin_cupos">> ELSE <<>>

\* LimiteReservasStrategy as it would be without clase__fecha__gte=today
LimiteReservasStrategy_sin_fecha(rs, s, c) ==
    IF Cardinality(ConfirmadasSocio(rs, s)) >= LimiteReservas
    THEN <<"limite_reservas">> ELSE <<>>

LimiteReservasStrategy(rs, s, c) ==
    IF Cardinality(ReservasActivas(rs, s)) >= LimiteReservas
    THEN <<"limite_reservas">> ELSE <<>>

ReservaDuplicadaStrategy(rs, s, c) ==
    IF \E i \in 1..Len(rs) : /\ rs[i].socio = s
                             /\ rs[i].clase = c
                             /\ rs[i].estado = "confirmada"
    THEN <<"reserva_duplicada">> ELSE <<>>

\* validate_all as it would be if it returned at the first failing strategy
validate_all_primer_fallo(rs, s, c) ==
    LET todos == ClaseDisponibleStrategy(rs, s, c) \o MembresiaValidationStrategy(rs, s, c)
                 \o CuposDisponiblesStrategy(rs, s, c) \o LimiteReservasStrategy(rs, s, c)
                 \o ReservaDuplicadaStrategy(rs, s, c)
    IN  IF todos = <<>> THEN <<>> ELSE <<todos[1]>>

\* ReservaValidator.validate_all: every strategy runs, failures in order
validate_all(rs, s, c) ==
    ClaseDisponibleStrategy(rs, s, c) \o MembresiaValidationStrategy(rs, s, c)
    \o CuposDisponiblesStrategy(rs, s, c) \o LimiteReservasStrategy(rs, s, c)
    \o ReservaDuplicadaStrategy(rs, s, c)

\* the Reserva table as it would be without its unique_together constraint
ViolaUnicidadReserva_sin_restriccion(rs, r, k) == FALSE

\* unique_together = [['socio', 'clase', 'estado']] of Reserva:
\* would row r, stored at index k (0 = new row), collide with another row?
ViolaUnicidadReserva(rs, r, k) ==
    \E i \in 1..Len(rs) : /\ i # k
                          /\ rs[i].socio = r.socio
                          /\ rs[i].clase = r.clase
                          /\ rs[i].estado = r.estado

\* the ListaEspera table as it would be without its unique_together constraint
ViolaUnicidadLista_sin_restriccion(ls, s, c) == FALSE

\* unique_together = [['clase', 'socio']] of ListaEspera
ViolaUnicidadLista(ls, s, c) ==
    \E i \in 1..Len(ls) : ls[i].socio = s /\ ls[i].clase = c

\* ------------------------------------------------------------ workers
TxVacio == [op |-> "ninguna", socio |-> 0, clase |-> 0, rid |-> 0,
            prioridad |-> 0, cuando |-> 0, sig |-> 0]

\* the dictionary of get_disponibilidad_clase, when the call returned none
SinVista == [capacidad_total |-> 0, cupos_disponibles |-> 0,
             esta_llena |-> FALSE, puede_reservarse |-> FALSE]

SinResultado == [proc |-> NoProc, op |-> "ninguna", ok |-> FALSE, codigo |-> "ninguno",
                 errores |-> <<>>, rid |-> 0, promo |-> "no", vista |-> SinVista]

Res(op, ok, codigo, errores, rid, promo) ==
    [proc |-> NoProc, op |-> op, ok |-> ok, codigo |-> codigo, errores |-> errores,
     rid |-> rid, promo |-> promo, vista |-> SinVista]

\* workers inside a call that may still insert a Reserva row for session c
PuedenInsertar(c) ==
    {q \in Procs : /\ pc[q] \in {"cr_lock", "cr_validar", "cr_recheck", "cr_crear",
                                   "ca_guardar", "ca_procesar", "ca_commit"}
                   /\ tx[q].clase = c}
FilasClase(rs, c) == {i \in 1..Len(rs) : rs[i].clase = c}
HayEspacioReserva(c) ==
    Cardinality(FilasClase(reservas, c)) + Cardinality(PuedenInsertar(c)) < MaxReservas

PuedenEncolar(c) == {q \in Procs : pc[q] = "le_crear" /\ tx[q].clase = c}
HayEspacioLista(c) ==
    Cardinality(FilasClase(lista, c)) + Cardinality(PuedenEncolar(c)) < MaxLista

\* the round-trip observer follows worker p only
RtVacio == [proc |-> NoProc, rid |-> 0, antes |-> 0, hecho |-> FALSE]
Seguir(p) == IF rt.proc = p /\ ~rt.hecho THEN rt ELSE RtVacio

\* the end of a transaction as it would be if it kept its Clase row locks
Liberar_nunca(p) == lock

Liberar(p) == [c \in Clases |-> IF lock[c] = p THEN NoProc ELSE lock[c]]

Terminar(p, r) ==
    /\ pc' = [pc EXCEPT ![p] = "idle"]
    /\ tx' = [tx EXCEPT ![p] = TxVacio]
    /\ ult' = [r EXCEPT !.proc = p]
    /\ lock' = Liberar(p)
    /\ rt' = IF rt.proc = p /\ ~rt.hecho /\ r.ok
             THEN IF r.op = "crear" THEN [rt EXCEPT !.rid = r.rid]
                  ELSE [rt EXCEPT !.hecho = TRUE]
             ELSE RtVacio

\* a pk that names no Clase row
ClaseInexistente == 0
ClaseIds == Clases \cup {ClaseInexistente}

\* --------------------------------------------- ReservaService.crear_reserva
\* a caller enters crear_reserva(socio, clase_id)
crear_reserva_llamar(p, s, c) ==
    /\ pc[p] = "idle"
    /\ c \in Clases => HayEspacioReserva(c)
    /\ pc' = [pc EXCEPT ![p] = "cr_lock"]
    /\ tx' = [tx EXCEPT ![p] = [TxVacio EXCEPT !.op = "crear", !.socio = s, !.clase = c]]
    /\ ult' = SinResultado
    /\ rt' = IF c \in Clases /\ \A q \in Procs : pc[q] = "idle"
             THEN [RtVacio EXCEPT !.proc = p, !.antes = get_cupos_disponibles(reservas, c)]
             ELSE RtVacio
    /\ UNCHANGED <<clase, socio, reservas, lista, now, lock>>

\* crear_reserva_lock as it would be if the Clase row were fetched without
\* select_for_update(): the caller does not wait for the row
crear_reserva_lock_sin_espera(p) ==
    /\ pc[p] = "cr_lock"
    /\ IF tx[p].clase \notin Clases
       THEN Terminar(p, Res("crear", FALSE, "NotFound", <<>>, 0, "no"))
       ELSE /\ lock' = [lock EXCEPT ![tx[p].clase] = p]
            /\ pc' = [pc EXCEPT ![p] = "cr_validar"]
            /\ ult' = SinResultado
            /\ rt' = Seguir(p)
            /\ UNCHANGED tx
    /\ UNCHANGED <<clase, socio, reservas, lista, now>>

\* crear_reserva_lock as it would be if it locked the whole Clase table
crear_reserva_lock_tabla(p) ==
    /\ pc[p] = "cr_lock"
    /\ IF tx[p].clase \notin Clases
       THEN Terminar(p, Res("crear", FALSE, "NotFound", <<>>, 0, "no"))
       ELSE /\ \A c \in Clases : lock[c] = NoProc
            /\ lock' = [lock EXCEPT ![tx[p].clase] = p]
            /\ pc' = [pc EXCEPT ![p] = "cr_validar"]
            /\ ult' = SinResultado
            /\ rt' = Seguir(p)
            /\ UNCHANGED tx
    /\ UNCHANGED <<clase, socio, reservas, lista, now>>

\* step 1: Clase.objects.select_for_update().get(pk=clase_id)
crear_reserva_lock(p) ==
    /\ pc[p] = "cr_lock"
    /\ IF tx[p].clase \notin Clases
       THEN Terminar(p, Res("crear", FALSE, "NotFound", <<>>, 0, "no"))
       ELSE /\ lock[tx[p].clase] = NoProc
            /\ lock' = [lock EXCEPT ![tx[p].clase] = p]
            /\ pc' = [pc EXCEPT ![p] = "cr_validar"]
            /\ ult' = SinResultado
            /\ rt' = Seguir(p)
            /\ UNCHANGED tx
    /\ UNCHANGED <<clase, socio, reservas, lista, now>>

\* crear_reserva_validar as it would be if the Reserva were written before the
\* validation result is looked at
crear_reserva_validar_crea_antes(p) ==
    /\ pc[p] = "cr_validar"
    /\ LET errores == validate_all(reservas, tx[p].socio, tx[p].clase)
       IN  IF errores # <<>>
           THEN /\ reservas' = Append(reservas,
                                [socio |-> tx[p].socio, clase |-> tx[p].clase,
                                 estado |-> "confirmada",
                                 prioridad |-> CalcularPrioridad(reservas, tx[p].socio),
                                 fecha_reserva |-> now, fecha_cancelacion |-> Nulo])
                /\ Terminar(p, Res("crear", FALSE, "ValidationFailed", errores, 0, "no"))
           ELSE /\ pc' = [pc EXCEPT ![p] = "cr_recheck"]
                /\ ult' = SinResultado
                /\ rt' = Seguir(p)
                /\ UNCHANGED <<tx, lock, reservas>>
    /\ UNCHANGED <<clase, socio, lista, now>>

\* step 2: self.validator.validate_all(socio, clase)
crear_reserva_validar(p) ==
    /\ pc[p] = "cr_validar"
    /\ LET errores == validate_all(reservas, tx[p].socio, tx[p].clase)
       IN  IF errores # <<>>
           THEN Terminar(p, Res("crear", FALSE, "ValidationFailed", errores, 0, "no"))
           ELSE /\ pc' = [pc EXCEPT ![p] = "cr_recheck"]
                /\ ult' = SinResultado
                /\ rt' = Seguir(p)
                /\ UNCHANGED <<tx, lock>>
    /\ UNCHANGED <<clase, socio, reservas, lista, now>>

\* step 3: second get_cupos_disponibles() check
crear_reserva_recheck(p) ==
    /\ pc[p] = "cr_recheck"
    /\ IF get_cupos_disponibles(reservas, tx[p].clase) <= 0
       THEN Terminar(p, Res("crear", FALSE, "CapacityExceeded", <<>>, 0, "no"))
       ELSE /\ pc' = [pc EXCEPT ![p] = "cr_crear"]
            /\ ult' = SinResultado
            /\ rt' = Seguir(p)
            /\ UNCHANGED <<tx, lock>>
    /\ UNCHANGED <<clase, socio, reservas, lista, now>>

\* the row Reserva.objects.create builds; Reserva.save fills prioridad when it is 0
NuevaReserva(rs, s, c, prio) ==
    [socio |-> s, clase |-> c, estado |-> "confirmada",
     prioridad |-> IF prio = 0 THEN CalcularPrioridad(rs, s) ELSE prio,
     fecha_reserva |-> now, fecha_cancelacion |-> Nulo]

\* crear_reserva_crear as it would be if it set the member's cancelled
\* reservation of the session back to confirmada instead of inserting a row
crear_reserva_crear_reutiliza_fila(p) ==
    /\ pc[p] = "cr_crear"
    /\ LET viejas == {i \in 1..Len(reservas) : /\ reservas[i].socio = tx[p].socio
                                                /\ reservas[i].clase = tx[p].clase
                                                /\ reservas[i].estado = "cancelada"}
           r == NuevaReserva(reservas, tx[p].socio, tx[p].clase, 0)
       IN  IF viejas # {}
           THEN \E i \in viejas :
                  /\ reservas' = [reservas EXCEPT ![i].estado = "confirmada"]
                  /\ Terminar(p, Res("crear", TRUE, "ok", <<>>, i, "no"))
           ELSE IF ViolaUnicidadReserva(reservas, r, 0)
           THEN /\ Terminar(p, Res("crear", FALSE, "ErrorAlCrear", <<>>, 0, "no"))
                /\ UNCHANGED reservas
           ELSE /\ reservas' = Append(reservas, r)
                /\ Terminar(p, Res("crear", TRUE, "ok", <<>>, Len(reservas) + 1, "no"))
    /\ UNCHANGED <<clase, socio, lista, now>>

\* step 4: Reserva.objects.create(...), then commit and release the Clase lock
crear_reserva_crear(p) ==
    /\ pc[p] = "cr_crear"
    /\ LET r == NuevaReserva(reservas, tx[p].socio, tx[p].clase, 0)
       IN  IF ViolaUnicidadReserva(reservas, r, 0)
           THEN /\ Terminar(p, Res("crear", FALSE, "ErrorAlCrear", <<>>, 0, "no"))
                /\ UNCHANGED reservas
           ELSE /\ reservas' = Append(reservas, r)
                /\ Terminar(p, Res("crear", TRUE, "ok", <<>>, Len(reservas) + 1, "no"))
    /\ UNCHANGED <<clase, socio, lista, now>>

\* ------------------------------------------ ReservaService.cancelar_reserva
\* pks a caller may pass: the rows that can exist, and one that never does
ReservaIds == 1..(MaxReservas + 1)

\* get_reserva_by_id as it would be without the filter(socio=socio)
get_reserva_by_id_sin_socio(rs, rid, s) ==
    IF rid \in 1..Len(rs) THEN rid ELSE 0

\* ReservaRepository.get_reserva_by_id(reserva_id, socio): 0 when DoesNotExist
get_reserva_by_id(rs, rid, s) ==
    IF rid \in 1..Len(rs) /\ rs[rid].socio = s THEN rid ELSE 0

\* cancelar_reserva_buscar as it would be without the estado != 'confirmada' test
cancelar_reserva_buscar_sin_estado(p, rid, s) ==
    /\ pc[p] = "idle"
    /\ LET k == get_reserva_by_id(reservas, rid, s)
       IN  IF k = 0
           THEN Terminar(p, Res("cancelar", FALSE, "NotFound", <<>>, rid, "no"))
           ELSE IF ~puede_cancelarse(reservas[k])
           THEN Terminar(p, Res("cancelar", FALSE, "TooLate", <<>>, rid, "no"))
           ELSE /\ HayEspacioReserva(reservas[k].clase)
                /\ pc' = [pc EXCEPT ![p] = "ca_guardar"]
                /\ tx' = [tx EXCEPT ![p] = [TxVacio EXCEPT !.op = "cancelar", !.socio = s,
                                                            !.clase = reservas[k].clase,
                                                            !.rid = k,
                                                            !.prioridad = reservas[k].prioridad]]
                /\ ult' = SinResultado
                /\ rt' = IF rt.rid = k THEN Seguir(p) ELSE RtVacio
                /\ UNCHANGED lock
    /\ UNCHANGED <<clase, socio, reservas, lista, now>>

\* steps 1-3: look the row up, check estado, check puede_cancelarse
cancelar_reserva_buscar(p, rid, s) ==
    /\ pc[p] = "idle"
    /\ LET k == get_reserva_by_id(reservas, rid, s)
       IN  IF k = 0
           THEN Terminar(p, Res("cancelar", FALSE, "NotFound", <<>>, rid, "no"))
           ELSE IF reservas[k].estado # "confirmada"
           THEN Terminar(p, Res("cancelar", FALSE, "InvalidState", <<>>, rid, "no"))
           ELSE IF ~puede_cancelarse(reservas[k])
           THEN Terminar(p, Res("cancelar", FALSE, "TooLate", <<>>, rid, "no"))
           ELSE /\ HayEspacioReserva(reservas[k].clase)
                /\ pc' = [pc EXCEPT ![p] = "ca_guardar"]
                /\ tx' = [tx EXCEPT ![p] = [TxVacio EXCEPT !.op = "cancelar", !.socio = s,
                                                            !.clase = reservas[k].clase,
                                                            !.rid = k,
                                                            !.prioridad = reservas[k].prioridad]]
                /\ ult' = SinResultado
                /\ rt' = IF rt.rid = k THEN Seguir(p) ELSE RtVacio
                /\ UNCHANGED lock
    /\ UNCHANGED <<clase, socio, reservas, lista, now>>

\* the row as reserva.save() writes it (Reserva.save recomputes a prioridad of 0)
ReservaCancelada(r, prio, cuando) ==
    [r EXCEPT !.estado = "cancelada", !.fecha_cancelacion = cuando, !.prioridad = prio]

\* the Reserva row is held by another transaction that has updated it
FilaOcupada(p, rid) ==
    \E q \in Procs \ {p} : pc[q] \in {"ca_procesar", "ca_commit"} /\ tx[q].rid = rid

\* step 4: estado = 'cancelada', fecha_cancelacion = now, reserva.save()
cancelar_reserva_guardar(p) ==
    /\ pc[p] = "ca_guardar"
    /\ ~FilaOcupada(p, tx[p].rid)
    /\ LET prio == IF tx[p].prioridad = 0
                   THEN CalcularPrioridad(reservas, tx[p].socio)
                   ELSE tx[p].prioridad
           fila == ReservaCancelada(reservas[tx[p].rid], prio, now)
       IN  IF ViolaUnicidadReserva(reservas, fila, tx[p].rid)
           THEN Terminar(p, Res("cancelar", FALSE, "IntegrityError", <<>>, tx[p].rid, "no"))
           ELSE /\ pc' = [pc EXCEPT ![p] = "ca_procesar"]
                /\ tx' = [tx EXCEPT ![p].prioridad = prio, ![p].cuando = now]
                /\ ult' = SinResultado
                /\ rt' = Seguir(p)
                /\ UNCHANGED lock
    /\ UNCHANGED <<clase, socio, reservas, lista, now>>

\* the Reserva table as the cancelling transaction sees it after its UPDATE
Vista(p) ==
    [reservas EXCEPT ![tx[p].rid] = ReservaCancelada(@, tx[p].prioridad, tx[p].cuando)]

\* Siguientes as it would be with order_by('fecha_registro') alone
Siguientes_por_registro(ls, c) ==
    LET cand == {i \in 1..Len(ls) : ls[i].clase = c /\ ~ls[i].notificado}
    IN  {i \in cand : \A j \in cand : ls[i].fecha_registro <= ls[j].fecha_registro}

\* filter(clase=clase, notificado=False).order_by('-prioridad', 'fecha_registro'):
\* the rows that may come first
Siguientes(ls, c) ==
    LET cand == {i \in 1..Len(ls) : ls[i].clase = c /\ ~ls[i].notificado}
    IN  {i \in cand : \A j \in cand :
            \/ ls[i].prioridad > ls[j].prioridad
            \/ /\ ls[i].prioridad = ls[j].prioridad
               /\ ls[i].fecha_registro <= ls[j].fecha_registro}

\* procesar_lista_espera as it would be without the test of the free seats
procesar_lista_espera_sin_cupos(p) ==
    /\ pc[p] = "ca_procesar"
    /\ IF Siguientes(lista, tx[p].clase) = {}
       THEN tx' = [tx EXCEPT ![p].sig = 0]
       ELSE \E k \in Siguientes(lista, tx[p].clase) : tx' = [tx EXCEPT ![p].sig = k]
    /\ pc' = [pc EXCEPT ![p] = "ca_commit"]
    /\ ult' = SinResultado
    /\ rt' = Seguir(p)
    /\ UNCHANGED <<clase, socio, reservas, lista, now, lock>>

\* step 5a: _procesar_lista_espera reads the free seats and picks siguiente
procesar_lista_espera(p) ==
    /\ pc[p] = "ca_procesar"
    /\ IF get_cupos_disponibles(Vista(p), tx[p].clase) <= 0
          \/ Siguientes(lista, tx[p].clase) = {}
       THEN tx' = [tx EXCEPT ![p].sig = 0]
       ELSE \E k \in Siguientes(lista, tx[p].clase) : tx' = [tx EXCEPT ![p].sig = k]
    /\ pc' = [pc EXCEPT ![p] = "ca_commit"]
    /\ ult' = SinResultado
    /\ rt' = Seguir(p)
    /\ UNCHANGED <<clase, socio, reservas, lista, now, lock>>

\* cancelar_reserva_commit as it would be if the promoted Reserva were written
\* outside the transaction that marks the entry notified
cancelar_reserva_commit_sin_notificar(p) ==
    /\ pc[p] = "ca_commit"
    /\ LET sig == tx[p].sig
           rs == Vista(p)
       IN  IF sig = 0
           THEN /\ reservas' = rs
                /\ Terminar(p, Res("cancelar", TRUE, "ok", <<>>, tx[p].rid, "no"))
           ELSE LET r == NuevaReserva(rs, lista[sig].socio, tx[p].clase, lista[sig].prioridad)
                IN  IF ViolaUnicidadReserva(rs, r, 0)
                    THEN /\ UNCHANGED reservas
                         /\ Terminar(p, Res("cancelar", TRUE, "ok", <<>>, tx[p].rid, "fallo"))
                    ELSE /\ reservas' = Append(rs, r)
                         /\ Terminar(p, Res("cancelar", TRUE, "ok", <<>>, tx[p].rid, "si"))
    /\ UNCHANGED <<clase, socio, now, lista>>

\* step 5b-6: Reserva.objects.create for siguiente, siguiente.save(), return;
\* leaving the atomic block commits, or rolls back when the create failed
cancelar_reserva_commit(p) ==
    /\ pc[p] = "ca_commit"
    /\ LET sig == tx[p].sig
           rs == Vista(p)
       IN  IF sig = 0
           THEN /\ reservas' = rs
                /\ UNCHANGED lista
                /\ Terminar(p, Res("cancelar", TRUE, "ok", <<>>, tx[p].rid, "no"))
           ELSE LET r == NuevaReserva(rs, lista[sig].socio, tx[p].clase, lista[sig].prioridad)
                IN  IF ViolaUnicidadReserva(rs, r, 0)
                    THEN /\ UNCHANGED <<reservas, lista>>
                         /\ Terminar(p, Res("cancelar", TRUE, "ok", <<>>, tx[p].rid, "fallo"))
                    ELSE /\ reservas' = Append(rs, r)
                         /\ lista' = [lista EXCEPT ![sig].notificado = TRUE]
                         /\ Terminar(p, Res("cancelar", TRUE, "ok", <<>>, tx[p].rid, "si"))
    /\ UNCHANGED <<clase, socio, now>>

\* ------------------------------- ListaEsperaService.agregar_a_lista_espera
\* Clase lookup, esta_llena check, duplicate check
agregar_a_lista_espera_verificar(p, s, c) ==
    /\ pc[p] = "idle"
    /\ IF c \notin Clases
       THEN Terminar(p, Res("espera", FALSE, "NotFound", <<>>, 0, "no"))
       ELSE IF ~esta_llena(reservas, c)
       THEN Terminar(p, Res("espera", FALSE, "NotFull", <<>>, 0, "no"))
       ELSE IF ViolaUnicidadLista(lista, s, c)
       THEN Terminar(p, Res("espera", FALSE, "Duplicate", <<>>, 0, "no"))
       ELSE /\ HayEspacioLista(c)
            /\ pc' = [pc EXCEPT ![p] = "le_crear"]
            /\ tx' = [tx EXCEPT ![p] = [TxVacio EXCEPT !.op = "espera", !.socio = s, !.clase = c]]
            /\ ult' = SinResultado
            /\ rt' = RtVacio
            /\ UNCHANGED lock
    /\ UNCHANGED <<clase, socio, reservas, lista, now>>

\* largest fecha_registro stored so far
UltimoRegistro(ls) ==
    IF Len(ls) = 0 THEN 0
    ELSE CHOOSE m \in {ls[i].fecha_registro : i \in 1..Len(ls)} :
            \A i \in 1..Len(ls) : ls[i].fecha_registro <= m

\* auto_now_add: not before any stored timestamp; equal to the latest one
\* when both rows are written within the clock's resolution
Registros(ls) ==
    IF Len(ls) = 0 THEN {1} ELSE {UltimoRegistro(ls), UltimoRegistro(ls) + 1}

\* priority computation and ListaEspera.objects.create
agregar_a_lista_espera_crear(p) ==
    /\ pc[p] = "le_crear"
    /\ IF ViolaUnicidadLista(lista, tx[p].socio, tx[p].clase)
       THEN /\ UNCHANGED lista
            /\ Terminar(p, Res("espera", FALSE, "IntegrityError", <<>>, 0, "no"))
       ELSE \E f \in Registros(lista) :
            /\ lista' = Append(lista, [socio |-> tx[p].socio, clase |-> tx[p].clase,
                                       prioridad |-> CalcularPrioridad(reservas, tx[p].socio),
                                       notificado |-> FALSE, fecha_registro |-> f])
            /\ Terminar(p, Res("espera", TRUE, "ok", <<>>, Len(lista) + 1, "no"))
    /\ UNCHANGED <<clase, socio, reservas, now>>

\* ------------------------------------- CuposService.get_disponibilidad_clase
\* read-only: the dictionary built from the Clase row, or None for an unknown pk
get_disponibilidad_clase(p, c) ==
    /\ pc[p] = "idle"
    /\ ult' = IF c \notin Clases
              THEN [Res("disponibilidad", FALSE, "NotFound", <<>>, 0, "no") EXCEPT !.proc = p]
              ELSE [Res("disponibilidad", TRUE, "ok", <<>>, c, "no") EXCEPT
                       !.proc = p,
                       !.vista = [capacidad_total |-> clase[c].capacidad,
                                  cupos_disponibles |-> get_cupos_disponibles(reservas, c),
                                  esta_llena |-> esta_llena(reservas, c),
                                  puede_reservarse |-> puede_reservarse(reservas, c)]]
    /\ rt' = RtVacio
    /\ UNCHANGED <<clase, socio, reservas, lista, now, lock, pc, tx>>

\* ------------------------------------------------------------ the clock
MaxNow == 3

Tick ==
    /\ now < MaxNow
    /\ now' = now + 1
    /\ ult' = SinResultado
    /\ UNCHANGED <<clase, socio, reservas, lista, lock, pc, tx, rt>>

\* ------------------------------------------------------- initial states
\* a member with a profile and a membership that is valid throughout
SocioVigente(s) ==
    [perfil |-> TRUE, estado_membresia |-> "activa",
     fecha_fin_membresia |-> 30, date_joined |-> 1 - s]

\* a scheduled session of the following day
ClaseProgramada(cap, fecha, hora) ==
    [capacidad |-> cap, fecha |-> fecha, hora_inicio |-> hora, estado |-> "programada"]

InitCon(nprocs, cls) ==
    /\ clase = cls
    /\ socio = [s \in Socios |-> SocioVigente(s)]
    /\ reservas = <<>>
    /\ lista = <<>>
    /\ now = 0
    /\ lock = [c \in DOMAIN cls |-> NoProc]
    /\ pc = [p \in 1..nprocs |-> "idle"]
    /\ tx = [p \in 1..nprocs |-> TxVacio]
    /\ ult = SinResultado
    /\ rt = RtVacio

\* ---------------------------------- concurrent callers, one session
Init == InitCon(NumProcs, <<ClaseProgramada(1, 1, 10)>>)

Next ==
    \/ \E p \in Procs, s \in Socios, c \in Clases : crear_reserva_llamar(p, s, c)
    \/ \E p \in Procs : crear_reserva_lock(p)
    \/ \E p \in Procs : crear_reserva_validar(p)
    \/ \E p \in Procs : crear_reserva_recheck(p)
    \/ \E p \in Procs : crear_reserva_crear(p)
    \/ \E p \in Procs, rid \in 1..Len(reservas), s \in Socios : cancelar_reserva_buscar(p, rid, s)
    \/ \E p \in Procs : cancelar_reserva_guardar(p)
    \/ \E p \in Procs : procesar_lista_espera(p)
    \/ \E p \in Procs : cancelar_reserva_commit(p)
    \/ \E p \in Procs, s \in Socios, c \in Clases : agregar_a_lista_espera_verificar(p, s, c)
    \/ \E p \in Procs : agregar_a_lista_espera_crear(p)

Spec == Init /\ [][Next]_vars

\* C1: no session ever holds more confirmed reservations than its capacidad
C1_SinSobrecupo ==
    \A c \in Clases : Cardinality(ConfirmadasClase(reservas, c)) <= clase[c].capacidad

\* ------------------- N callers racing for one session of capacity C < N
\* every caller has entered crear_reserva for the same session, each for a
\* different member; no reservation exists yet
InitCarrera ==
    \E n \in 2..NumProcs, cap \in 1..NumProcs :
      \E f \in [1..n -> Socios] :
        /\ cap < n
        /\ \A p, q \in 1..n : p # q => f[p] # f[q]
        /\ clase = <<ClaseProgramada(cap, 1, 10)>>
        /\ socio = [s \in Socios |-> SocioVigente(s)]
        /\ reservas = <<>>
        /\ lista = <<>>
        /\ now = 0
        /\ lock = <<NoProc>>
        /\ pc = [p \in 1..n |-> "cr_lock"]
        /\ tx = [p \in 1..n |-> [TxVacio EXCEPT !.op = "crear", !.socio = f[p], !.clase = 1]]
        /\ ult = SinResultado
        /\ rt = RtVacio

NextCarrera ==
    \/ \E p \in Procs : crear_reserva_lock(p)
    \/ \E p \in Procs : crear_reserva_validar(p)
    \/ \E p \in Procs : crear_reserva_recheck(p)
    \/ \E p \in Procs : crear_reserva_crear(p)

SpecCarrera == InitCarrera /\ [][NextCarrera]_vars

\* a failure value that names the lack of seats
RechazoPorCupo(r) ==
    \/ r.codigo = "CapacityExceeded"
    \/ /\ r.codigo = "ValidationFailed"
       /\ \E i \in 1..Len(r.errores) : r.errores[i] = "sin_cupos"

TodasTerminaron == \A p \in Procs : pc[p] = "idle"

\* C2: N concurrent crear_reserva calls by distinct members on an empty session
\* of capacity C < N: every call that fails returns a capacity-related failure,
\* and once all N calls have returned exactly C reservations exist, all
\* confirmed (so exactly N - C calls were rejected)
C2_Carrera ==
    /\ (ult.op = "crear" /\ ~ult.ok) => RechazoPorCupo(ult)
    /\ TodasTerminaron =>
          /\ Len(reservas) = clase[1].capacidad
          /\ Cardinality(ConfirmadasClase(reservas, 1)) = clase[1].capacidad

C2_Testigo ==
    /\ TodasTerminaron
    /\ Cardinality(Procs) = 3
    /\ clase[1].capacidad = 2
    /\ Cardinality(ConfirmadasClase(reservas, 1)) = 2
    /\ ult.op = "crear" /\ ~ult.ok /\ RechazoPorCupo(ult)

\* C3: for every (member, session) pair at most one reservation is confirmada
C3_UnaConfirmadaPorPar ==
    \A i, j \in 1..Len(reservas) :
        (/\ i # j
         /\ reservas[i].socio = reservas[j].socio
         /\ reservas[i].clase = reservas[j].clase
         /\ reservas[i].estado = "confirmada")
        => reservas[j].estado # "confirmada"

\* a promotion has just been refused because the waitlisted member already
\* holds a confirmed reservation of the session
C3_Testigo ==
    /\ ult.op = "cancelar" /\ ult.promo = "fallo"
    /\ \E i \in 1..Len(reservas), k \in 1..Len(lista) :
          /\ reservas[i].estado = "confirmada"
          /\ reservas[i].socio = lista[k].socio
          /\ reservas[i].clase = lista[k].clase

\* ------------------- one caller at a time, the clock running, any argument
InitSec == InitCon(1, <<ClaseProgramada(2, 0, 3)>>)

NextSec ==
    \/ \E p \in Procs, s \in Socios, c \in ClaseIds : crear_reserva_llamar(p, s, c)
    \/ \E p \in Procs : crear_reserva_lock(p)
    \/ \E p \in Procs : crear_reserva_validar(p)
    \/ \E p \in Procs : crear_reserva_recheck(p)
    \/ \E p \in Procs : crear_reserva_crear(p)
    \/ \E p \in Procs, rid \in ReservaIds, s \in Socios : cancelar_reserva_buscar(p, rid, s)
    \/ \E p \in Procs : cancelar_reserva_guardar(p)
    \/ \E p \in Procs : procesar_lista_espera(p)
    \/ \E p \in Procs : cancelar_reserva_commit(p)
    \/ \E p \in Procs, s \in Socios, c \in ClaseIds : agregar_a_lista_espera_verificar(p, s, c)
    \/ \E p \in Procs : agregar_a_lista_espera_crear(p)
    \/ Tick

SpecSec == InitSec /\ [][NextSec]_vars

\* the cancelar_reserva call that just returned had passed the ownership,
\* estado and time checks
PasoLasVerificaciones(r) ==
    /\ r.op = "cancelar"
    /\ r.codigo \notin {"NotFound", "InvalidState", "TooLate"}

\* C5: a cancelar_reserva call that passed its three checks returns success and
\* leaves the reservation cancelada
C5_CancelacionSiempreExitosa ==
    PasoLasVerificaciones(ult) =>
        /\ ult.ok
        /\ reservas[ult.rid].estado = "cancelada"

\* C6: when the promotion triggered by a cancellation fails, cancelar_reserva
\* still returns success and the reservation stays cancelada with its
\* fecha_cancelacion set
C6_FalloDePromocionNoAfecta ==
    (ult.op = "cancelar" /\ ult.promo = "fallo") =>
        /\ ult.ok
        /\ reservas[ult.rid].estado = "cancelada"
        /\ reservas[ult.rid].fecha_cancelacion # Nulo

\* C7: cancelar_reserva on a reservation of the caller that is already
\* cancelada returns InvalidState at once, changes no Reserva or ListaEspera
\* row and does not reach the promotion
C7_CancelarCanceladaEsInvalidState ==
    [][\A p \in Procs, rid \in ReservaIds, s \in Socios :
        (/\ cancelar_reserva_buscar(p, rid, s)
         /\ rid \in 1..Len(reservas)
         /\ reservas[rid].socio = s
         /\ reservas[rid].estado = "cancelada")
        => /\ ult'.codigo = "InvalidState"
           /\ ~ult'.ok
           /\ pc'[p] = "idle"
           /\ UNCHANGED <<reservas, lista>>]_vars

C7_Testigo ==
    /\ ult.op = "cancelar" /\ ult.codigo = "InvalidState"
    /\ reservas[ult.rid].estado = "cancelada"
    /\ \E k \in 1..Len(lista) : ~lista[k].notificado

\* C8: cancelar_reserva with a pk that names no reservation, or a reservation
\* of another member, returns NotFound and changes no Reserva or ListaEspera row
C8_AjenaOInexistenteEsNotFound ==
    [][\A p \in Procs, rid \in ReservaIds, s \in Socios :
        (/\ cancelar_reserva_buscar(p, rid, s)
         /\ \/ rid \notin 1..Len(reservas)
            \/ reservas[rid].socio # s)
        => /\ ult'.codigo = "NotFound"
           /\ ~ult'.ok
           /\ pc'[p] = "idle"
           /\ UNCHANGED <<reservas, lista>>]_vars

\* the caller named a confirmed, still cancellable reservation of someone else
C8_Testigo ==
    /\ ult.op = "cancelar" /\ ult.codigo = "NotFound"
    /\ ult.rid \in 1..Len(reservas)
    /\ puede_cancelarse(reservas[ult.rid])

\* C9: for an owned confirmed reservation cancelar_reserva succeeds iff
\* now <= start - 2 hours; otherwise it returns TooLate and the reservation
\* stays confirmada
C9_CancelaSiYSoloSiATiempo ==
    /\ [][\A p \in Procs, rid \in ReservaIds, s \in Socios :
            (/\ cancelar_reserva_buscar(p, rid, s)
             /\ rid \in 1..Len(reservas)
             /\ reservas[rid].socio = s
             /\ reservas[rid].estado = "confirmada")
            => IF now <= clase_datetime(reservas[rid].clase) - HorasCancelacion
               THEN pc'[p] = "ca_guardar"
               ELSE /\ ult'.codigo = "TooLate"
                    /\ ~ult'.ok
                    /\ UNCHANGED <<reservas, lista>>]_vars
    /\ [](PasoLasVerificaciones(ult) => ult.ok)

\* C10: a successful crear_reserva followed at once by a successful
\* cancelar_reserva of that reservation, no other call running meanwhile,
\* leaves get_cupos_disponibles at its value before the create
C10_IdaYVuelta ==
    rt.hecho => get_cupos_disponibles(reservas, reservas[rt.rid].clase) = rt.antes

\* ---------------- a member at the limit, one caller at a time, four sessions
\* member 1 has booked sessions 1, 2 and 3; the callers now work on session 4
ClasesLibres == {4}

InitLimite ==
    /\ clase = [c \in 1..4 |-> ClaseProgramada(1, 1, 10)]
    /\ socio = [s \in Socios |-> SocioVigente(s)]
    /\ reservas = <<[socio |-> 1, clase |-> 1, estado |-> "confirmada", prioridad |-> 0,
                     fecha_reserva |-> 0, fecha_cancelacion |-> Nulo],
                    [socio |-> 1, clase |-> 2, estado |-> "confirmada", prioridad |-> PesoReserva,
                     fecha_reserva |-> 0, fecha_cancelacion |-> Nulo],
                    [socio |-> 1, clase |-> 3, estado |-> "confirmada", prioridad |-> 2 * PesoReserva,
                     fecha_reserva |-> 0, fecha_cancelacion |-> Nulo]>>
    /\ lista = <<>>
    /\ now = 0
    /\ lock = [c \in 1..4 |-> NoProc]
    /\ pc = <<"idle">>
    /\ tx = <<TxVacio>>
    /\ ult = SinResultado
    /\ rt = RtVacio

NextLimite ==
    \/ \E p \in Procs, s \in 1..2, c \in ClasesLibres : crear_reserva_llamar(p, s, c)
    \/ \E p \in Procs : crear_reserva_lock(p)
    \/ \E p \in Procs : crear_reserva_validar(p)
    \/ \E p \in Procs : crear_reserva_recheck(p)
    \/ \E p \in Procs : crear_reserva_crear(p)
    \/ \E p \in Procs, rid \in 4..Len(reservas), s \in 1..2 : cancelar_reserva_buscar(p, rid, s)
    \/ \E p \in Procs : cancelar_reserva_guardar(p)
    \/ \E p \in Procs : procesar_lista_espera(p)
    \/ \E p \in Procs : cancelar_reserva_commit(p)
    \/ \E p \in Procs, s \in 1..2, c \in ClasesLibres : agregar_a_lista_espera_verificar(p, s, c)
    \/ \E p \in Procs : agregar_a_lista_espera_crear(p)

SpecLimite == InitLimite /\ [][NextLimite]_vars

\* C4: every member has at most 3 confirmed reservations of sessions dated
\* today or later
C4_LimiteDeReservasActivas ==
    \A s \in Socios : Cardinality(ReservasActivas(reservas, s)) <= LimiteReservas

\* ------------- a full session with a waitlist, one caller at a time
\* member 1 holds the only seat; two or more members joined the waitlist one
\* after the other, each with the prioridad agregar_a_lista_espera computed
Tenencias == {0, 1}

ColaInicial(dj, orden) ==
    [k \in 1..Len(orden) |->
        [socio |-> orden[k], clase |-> 1,
         prioridad |-> dj[orden[k]] + (IF orden[k] = 1 THEN PesoReserva ELSE 0),
         notificado |-> FALSE, fecha_registro |-> k]]

InitEspera ==
    \E dj \in [Socios -> Tenencias], n \in 2..NumSocios :
      \E orden \in [1..n -> Socios], junto \in BOOLEAN :
        /\ \A i, j \in 1..n : i # j => orden[i] # orden[j]
        /\ clase = <<ClaseProgramada(1, 1, 10)>>
        /\ socio = [s \in Socios |-> [SocioVigente(s) EXCEPT !.date_joined = 0 - dj[s]]]
        /\ reservas = <<[socio |-> 1, clase |-> 1, estado |-> "confirmada",
                          prioridad |-> dj[1], fecha_reserva |-> 0,
                          fecha_cancelacion |-> Nulo]>>
        /\ lista = IF junto
                   THEN [k \in 1..n |-> [ColaInicial(dj, orden)[k] EXCEPT
                                            !.fecha_registro = IF k = 1 THEN 1 ELSE k - 1]]
                   ELSE ColaInicial(dj, orden)
        /\ now = 0
        /\ lock = <<NoProc>>
        /\ pc = <<"idle">>
        /\ tx = <<TxVacio>>
        /\ ult = SinResultado
        /\ rt = RtVacio

\* the members cancel; every cancellation runs the promotion
NextEspera ==
    \/ \E p \in Procs, rid \in 1..Len(reservas), s \in Socios : cancelar_reserva_buscar(p, rid, s)
    \/ \E p \in Procs : cancelar_reserva_guardar(p)
    \/ \E p \in Procs : procesar_lista_espera(p)
    \/ \E p \in Procs : cancelar_reserva_commit(p)

SpecEspera == InitEspera /\ [][NextEspera]_vars

\* C11: the entry a promotion marks notified has, among the un-notified
\* entries of its session, the greatest prioridad and, among those of equal
\* prioridad, the earliest fecha_registro
C11_MayorPrioridadPrimero ==
    [][\A k \in 1..Len(lista) :
        (~lista[k].notificado /\ lista'[k].notificado)
        => \A j \in 1..Len(lista) :
              (lista[j].clase = lista[k].clase /\ ~lista[j].notificado)
              => \/ lista[k].prioridad > lista[j].prioridad
                 \/ /\ lista[k].prioridad = lista[j].prioridad
                    /\ lista[k].fecha_registro <= lista[j].fecha_registro]_vars

\* a later-registered entry of higher prioridad has just been promoted while
\* an earlier one still waits
C11_Testigo ==
    /\ ult.op = "cancelar" /\ ult.promo = "si"
    /\ \E k, j \in 1..Len(lista) :
          /\ lista[k].notificado /\ ~lista[j].notificado
          /\ reservas[Len(reservas)].socio = lista[k].socio
          /\ reservas[Len(reservas)].estado = "confirmada"
          /\ lista[k].prioridad > lista[j].prioridad
          /\ lista[k].fecha_registro > lista[j].fecha_registro

\* C12: when a cancelar_reserva call has returned success, the session of the
\* cancelled reservation does not have both a free seat and a waitlist entry
\* that is still un-notified
C12_CupoLibreSinEspera ==
    (ult.op = "cancelar" /\ ult.ok) =>
        LET c == reservas[ult.rid].clase
        IN  ~(/\ get_cupos_disponibles(reservas, c) > 0
              /\ \E k \in 1..Len(lista) : lista[k].clase = c /\ ~lista[k].notificado)

\* C13: a promotion commits as a whole or not at all: the step that marks an
\* entry notified also appends the confirmed reservation of that entry's
\* member and leaves the triggering reservation cancelada, and a cancellation
\* step that appends a reservation leaves the entry of that member notified
C13_PromocionAtomica ==
    [][/\ \A k \in 1..Len(lista) :
            (~lista[k].notificado /\ lista'[k].notificado)
            => /\ Len(reservas') = Len(reservas) + 1
               /\ reservas'[Len(reservas')].socio = lista[k].socio
               /\ reservas'[Len(reservas')].clase = lista[k].clase
               /\ reservas'[Len(reservas')].estado = "confirmada"
               /\ ult'.op = "cancelar"
               /\ reservas'[ult'.rid].estado = "cancelada"
       /\ (ult'.op = "cancelar" /\ Len(reservas') > Len(reservas))
            => /\ reservas'[ult'.rid].estado = "cancelada"
               /\ \E k \in 1..Len(lista') :
                     /\ lista'[k].notificado
                     /\ lista'[k].socio = reservas'[Len(reservas')].socio
                     /\ lista'[k].clase = reservas'[Len(reservas')].clase]_vars

\* a promotion has just been committed while another call is under way
C13_Testigo ==
    /\ ult.op = "cancelar" /\ ult.promo = "si"
    /\ reservas[ult.rid].estado = "cancelada"
    /\ reservas[Len(reservas)].estado = "confirmada"
    /\ \E k \in 1..Len(lista) :
          lista[k].notificado /\ lista[k].socio = reservas[Len(reservas)].socio
    /\ \E q \in Procs : pc[q] # "idle"

\* ------------- callers that have all passed the checks of agregar_a_lista_espera
\* member 1 holds the only seat of the session; every caller found the session
\* full and no entry of its member, and is about to insert one
InitDoble ==
    \E n \in 2..NumProcs :
      \E f \in [1..n -> Socios] :
        /\ clase = <<ClaseProgramada(1, 1, 10)>>
        /\ socio = [s \in Socios |-> SocioVigente(s)]
        /\ reservas = <<[socio |-> 1, clase |-> 1, estado |-> "confirmada",
                          prioridad |-> 0, fecha_reserva |-> 0,
                          fecha_cancelacion |-> Nulo]>>
        /\ lista = <<>>
        /\ now = 0
        /\ lock = <<NoProc>>
        /\ pc = [p \in 1..n |-> "le_crear"]
        /\ tx = [p \in 1..n |-> [TxVacio EXCEPT !.op = "espera", !.socio = f[p], !.clase = 1]]
        /\ ult = SinResultado
        /\ rt = RtVacio

NextDoble ==
    \/ \E p \in Procs, s \in Socios, c \in ClaseIds : agregar_a_lista_espera_verificar(p, s, c)
    \/ \E p \in Procs : agregar_a_lista_espera_crear(p)

SpecDoble == InitDoble /\ [][NextDoble]_vars

\* C14: agregar_a_lista_espera fails with NotFound for a pk that names no
\* session, with NotFull while the session has a free seat, with Duplicate when
\* the session is full and the member already has an entry, each time leaving
\* the waitlist as it was; otherwise it appends exactly one entry of that
\* member and session with notificado = False
C14_FallosDeListaEspera ==
    /\ [][\A p \in Procs, s \in Socios, c \in ClaseIds :
            agregar_a_lista_espera_verificar(p, s, c)
            => /\ UNCHANGED lista
               /\ IF c \notin Clases
                  THEN ult'.codigo = "NotFound" /\ ~ult'.ok
                  ELSE IF Cardinality(ConfirmadasClase(reservas, c)) < clase[c].capacidad
                  THEN ult'.codigo = "NotFull" /\ ~ult'.ok
                  ELSE IF \E k \in 1..Len(lista) : lista[k].socio = s /\ lista[k].clase = c
                  THEN ult'.codigo = "Duplicate" /\ ~ult'.ok
                  ELSE pc'[p] = "le_crear"]_vars
    /\ [][\A p \in Procs :
            agregar_a_lista_espera_crear(p)
            => /\ ult'.ok
               /\ Len(lista') = Len(lista) + 1
               /\ SubSeq(lista', 1, Len(lista)) = lista
               /\ lista'[Len(lista')].socio = tx[p].socio
               /\ lista'[Len(lista')].clase = tx[p].clase
               /\ ~lista'[Len(lista')].notificado]_vars

\* C15: no (member, session) pair has more than one waitlist entry
C15_UnaEntradaPorPar ==
    \A i, j \in 1..Len(lista) :
        (lista[i].socio = lista[j].socio /\ lista[i].clase = lista[j].clase) => i = j

\* two callers tried to insert an entry for the same member and session: one
\* entry exists and the later INSERT was refused
C15_Testigo ==
    /\ ult.op = "espera" /\ ult.codigo = "IntegrityError"
    /\ Len(lista) >= 1

InitValidar ==
    \E est \in {"programada", "cancelada"}, fecha \in {-1, 1},
       perfil \in BOOLEAN, mem \in {"activa", "vencida"}, fin \in {-1, 30},
       k \in 0..LimiteReservas :
        /\ clase = [c \in 1..LimiteReservas |->
                       IF c = 1 THEN [ClaseProgramada(1, fecha, 10) EXCEPT !.estado = est]
                       ELSE ClaseProgramada(1, 1, 10)]
        /\ socio = [s \in Socios |->
                       IF s = 1 THEN [SocioVigente(s) EXCEPT !.perfil = perfil,
                                                             !.estado_membresia = mem,
                                                             !.fecha_fin_membresia = fin]
                       ELSE SocioVigente(s)]
        /\ reservas = [i \in 1..k |-> [socio |-> 1, clase |-> i, estado |-> "confirmada",
                                        prioridad |-> (i - 1) * PesoReserva,
                                        fecha_reserva |-> 0, fecha_cancelacion |-> Nulo]]
        /\ lista = <<>>
        /\ now = 0
        /\ lock = [c \in 1..LimiteReservas |-> NoProc]
        /\ pc = <<"idle">>
        /\ tx = <<TxVacio>>
        /\ ult = SinResultado
        /\ rt = RtVacio

NextValidar ==
    \/ \E p \in Procs, s \in 1..2, c \in Clases : crear_reserva_llamar(p, s, c)
    \/ \E p \in Procs : crear_reserva_lock(p)
    \/ \E p \in Procs : crear_reserva_validar(p)
    \/ \E p \in Procs : crear_reserva_recheck(p)
    \/ \E p \in Procs : crear_reserva_crear(p)

SpecValidar == InitValidar /\ [][NextValidar]_vars

\* the five checks in their fixed order, and the check a failure reason belongs to
OrdenDeChequeos == <<"elegibilidad", "membresia", "cupos", "limite", "duplicada">>

ChequeoDe(m) ==
    CASE m = "clase_no_disponible" -> "elegibilidad"
      [] m \in {"sin_perfil", "membresia_no_vigente"} -> "membresia"
      [] m = "sin_cupos" -> "cupos"
      [] m = "limite_reservas" -> "limite"
      [] m = "reserva_duplicada" -> "duplicada"

\* does the named check fail for member s and session c, read off the tables
ChequeoFalla(q, s, c) ==
    LET conf == {i \in 1..Len(reservas) : reservas[i].clase = c /\ reservas[i].estado = "confirmada"}
    IN  CASE q = "elegibilidad" ->
                ~(/\ clase[c].estado = "programada"
                  /\ clase[c].fecha * HorasPorDia + clase[c].hora_inicio > now
                  /\ Cardinality(conf) < clase[c].capacidad)
          [] q = "membresia" ->
                ~(/\ socio[s].perfil
                  /\ socio[s].estado_membresia = "activa"
                  /\ socio[s].fecha_fin_membresia >= now \div HorasPorDia)
          [] q = "cupos" -> Cardinality(conf) >= clase[c].capacidad
          [] q = "limite" ->
                Cardinality({i \in 1..Len(reservas) :
                                /\ reservas[i].socio = s
                                /\ reservas[i].estado = "confirmada"
                                /\ clase[reservas[i].clase].fecha >= now \div HorasPorDia}) >= 3
          [] q = "duplicada" -> \E i \in conf : reservas[i].socio = s

ChequeoFallaAhora(q) ==
    ChequeoFalla(q, tx[1].socio, tx[1].clase)

\* C17: validate_all returns one reason for each failing check, none for a
\* passing one, in the order eligibility, membership, capacity, limit,
\* duplicate; the call is refused exactly when that list is not empty
C17_TodasLasValidaciones ==
    /\ [](pc[1] = "cr_validar" =>
            LET e == validate_all(reservas, tx[1].socio, tx[1].clase)
            IN  [i \in 1..Len(e) |-> ChequeoDe(e[i])]
                    = SelectSeq(OrdenDeChequeos, ChequeoFallaAhora))
    /\ [][crear_reserva_validar(1) =>
            IF \E i \in 1..Len(OrdenDeChequeos) : ChequeoFallaAhora(OrdenDeChequeos[i])
            THEN /\ ult'.codigo = "ValidationFailed" /\ ~ult'.ok
                 /\ ult'.errores = validate_all(reservas, tx[1].socio, tx[1].clase)
                 /\ ult'.errores # <<>>
            ELSE pc'[1] = "cr_recheck"]_vars

\* all five checks fail at once
C17_Testigo ==
    /\ pc[1] = "cr_validar"
    /\ Len(validate_all(reservas, tx[1].socio, tx[1].clase)) = 5

\* C18: a session that holds capacidad confirmed reservations is full, and
\* crear_reserva for a member without a reservation of it is refused with a
\* reason that names the lack of seats and creates nothing
C18_ClaseLlenaRechaza ==
    /\ [](\A c \in Clases :
            Cardinality(ConfirmadasClase(reservas, c)) >= clase[c].capacidad
            => esta_llena(reservas, c))
    /\ [][\A p \in Procs :
            (/\ crear_reserva_validar(p)
             /\ Cardinality(ConfirmadasClase(reservas, tx[p].clase)) >= clase[tx[p].clase].capacidad)
            => /\ ~ult'.ok
               /\ \E i \in 1..Len(ult'.errores) : ult'.errores[i] = "sin_cupos"
               /\ pc'[p] = "idle"
               /\ UNCHANGED reservas]_vars

\* a member without a reservation of the full session has just been refused
C18_Testigo ==
    /\ ult.op = "crear" /\ ult.codigo = "ValidationFailed"
    /\ ult.errores = <<"clase_no_disponible", "sin_cupos">>
    /\ \E c \in Clases : Cardinality(ConfirmadasClase(reservas, c)) = clase[c].capacidad

\* ------------- one member booking more sessions than the limit allows
\* LimiteReservas + 1 sessions of one seat are scheduled for tomorrow; one
\* more session took place yesterday, and member 1 may hold a confirmed
\* reservation of it
ClasePasada == LimiteReservas + 2

InitTope ==
    \E asistio \in BOOLEAN :
        /\ clase = [c \in 1..ClasePasada |->
                       IF c = ClasePasada THEN ClaseProgramada(1, -1, 10)
                       ELSE ClaseProgramada(1, 1, 10)]
        /\ socio = [s \in Socios |-> SocioVigente(s)]
        /\ reservas = IF asistio
                      THEN <<[socio |-> 1, clase |-> ClasePasada, estado |-> "confirmada",
                              prioridad |-> 0, fecha_reserva |-> -48,
                              fecha_cancelacion |-> Nulo]>>
                      ELSE <<>>
        /\ lista = <<>>
        /\ now = 0
        /\ lock = [c \in 1..ClasePasada |-> NoProc]
        /\ pc = <<"idle">>
        /\ tx = <<TxVacio>>
        /\ ult = SinResultado
        /\ rt = RtVacio

NextTope ==
    \/ \E p \in Procs, c \in Clases : crear_reserva_llamar(p, 1, c)
    \/ \E p \in Procs : crear_reserva_lock(p)
    \/ \E p \in Procs : crear_reserva_validar(p)
    \/ \E p \in Procs : crear_reserva_recheck(p)
    \/ \E p \in Procs : crear_reserva_crear(p)
    \* the member cancels one of the two oldest reservations
    \/ \E p \in Procs, rid \in 1..2 : cancelar_reserva_buscar(p, rid, 1)
    \/ \E p \in Procs : cancelar_reserva_guardar(p)
    \/ \E p \in Procs : procesar_lista_espera(p)
    \/ \E p \in Procs : cancelar_reserva_commit(p)

SpecTope == InitTope /\ [][NextTope]_vars

\* confirmed reservations of member s for sessions dated today or later
ActivasDe(s) ==
    Cardinality({i \in 1..Len(reservas) :
                    /\ reservas[i].socio = s
                    /\ reservas[i].estado = "confirmada"
                    /\ clase[reservas[i].clase].fecha * HorasPorDia >= (now \div HorasPorDia) * HorasPorDia})

\* C19: the validation of crear_reserva reports the limit exactly when the
\* member already holds 3 or more confirmed reservations of sessions dated
\* today or later; with fewer, a booking of a free future session the member
\* has not booked goes ahead, so three bookings succeed and the fourth fails
C19_TopeDeTres ==
    [][\A p \in Procs :
        crear_reserva_validar(p)
        => IF ActivasDe(tx[p].socio) >= 3
           THEN /\ ult'.codigo = "ValidationFailed" /\ ~ult'.ok
                /\ \E i \in 1..Len(ult'.errores) : ult'.errores[i] = "limite_reservas"
                /\ UNCHANGED reservas
           ELSE /\ \A i \in 1..Len(ult'.errores) : ult'.errores[i] # "limite_reservas"
                /\ (/\ tx[p].clase # ClasePasada
                    /\ ConfirmadasClase(reservas, tx[p].clase) = {})
                   => pc'[p] = "cr_recheck"]_vars

\* member 1 holds its third future reservation next to the one of yesterday
C19_Testigo ==
    /\ ult.op = "crear" /\ ult.ok
    /\ ActivasDe(1) = 3
    /\ Cardinality(ConfirmadasSocio(reservas, 1)) = 4

\* ------------- a session with reservations in every estado, one caller at a time
\* the session already has up to MaxReservas - 1 reservations, each in any of
\* the four estados of ESTADOS_RESERVA (no two alike for one member); its
\* capacidad may since have been lowered below the confirmed count
EstadosReserva == {"pendiente", "confirmada", "cancelada", "no_show"}

InitCupos ==
    \E cap \in 1..2, n \in 0..(MaxReservas - 1) :
      \E filas \in [1..n -> Socios \X EstadosReserva] :
        /\ \A i, j \in 1..n : i # j => filas[i] # filas[j]
        /\ clase = <<ClaseProgramada(cap, 1, 10)>>
        /\ socio = [s \in Socios |-> SocioVigente(s)]
        /\ reservas = [i \in 1..n |->
                          [socio |-> filas[i][1], clase |-> 1, estado |-> filas[i][2],
                           prioridad |-> filas[i][1], fecha_reserva |-> 0,
                           fecha_cancelacion |-> IF filas[i][2] = "cancelada" THEN 0 ELSE Nulo]]
        /\ lista = <<>>
        /\ now = 0
        /\ lock = <<NoProc>>
        /\ pc = <<"idle">>
        /\ tx = <<TxVacio>>
        /\ ult = SinResultado
        /\ rt = RtVacio

NextCupos ==
    \/ \E p \in Procs, s \in Socios, c \in Clases : crear_reserva_llamar(p, s, c)
    \/ \E p \in Procs : crear_reserva_lock(p)
    \/ \E p \in Procs : crear_reserva_validar(p)
    \/ \E p \in Procs : crear_reserva_recheck(p)
    \/ \E p \in Procs : crear_reserva_crear(p)
    \/ \E p \in Procs, rid \in 1..Len(reservas), s \in Socios : cancelar_reserva_buscar(p, rid, s)
    \/ \E p \in Procs : cancelar_reserva_guardar(p)
    \/ \E p \in Procs : procesar_lista_espera(p)
    \/ \E p \in Procs : cancelar_reserva_commit(p)

SpecCupos == InitCupos /\ [][NextCupos]_vars

\* reservations of session c in the given estado
FilasEnEstado(c, e) ==
    Cardinality({i \in 1..Len(reservas) : reservas[i].clase = c /\ reservas[i].estado = e})

\* C20: get_cupos_disponibles is capacidad minus the number of confirmada
\* reservations of the session, or 0 when that difference is negative;
\* reservations in the other estados do not count, and a successful
\* crear_reserva lowers it by exactly one
C20_CuposDisponibles ==
    /\ [](\A c \in Clases :
            /\ get_cupos_disponibles(reservas, c) >= 0
            /\ IF FilasEnEstado(c, "confirmada") <= clase[c].capacidad
               THEN get_cupos_disponibles(reservas, c)
                        = clase[c].capacidad - FilasEnEstado(c, "confirmada")
               ELSE get_cupos_disponibles(reservas, c) = 0)
    /\ [][(ult'.op = "crear" /\ ult'.ok)
            => /\ get_cupos_disponibles(reservas, reservas'[ult'.rid].clase) > 0
               /\ get_cupos_disponibles(reservas', reservas'[ult'.rid].clase)
                    = get_cupos_disponibles(reservas, reservas'[ult'.rid].clase) - 1]_vars

\* a booking has just succeeded in a session that also has reservations in
\* estado pendiente and no_show
C20_Testigo ==
    /\ ult.op = "crear" /\ ult.ok
    /\ FilasEnEstado(1, "pendiente") > 0
    /\ FilasEnEstado(1, "no_show") > 0
    /\ get_cupos_disponibles(reservas, 1) = clase[1].capacidad - 1

\* ------------- sessions in every state, one caller at a time, the clock running
\* the session is in any estado of ESTADO_CLASE and starts at hour 2 of today
\* or of tomorrow; each of the first MaxReservas - 1 members may have one
\* reservation of it, in any estado
EstadosClase == {"programada", "en_curso", "finalizada", "cancelada"}

InitDisponibilidad ==
    \E cap \in 1..2, est \in EstadosClase, fecha \in 0..1 :
      \E f \in [1..(MaxReservas - 1) -> EstadosReserva \cup {"ninguna"}] :
        /\ clase = <<[ClaseProgramada(cap, fecha, 2) EXCEPT !.estado = est]>>
        /\ socio = [s \in Socios |-> SocioVigente(s)]
        /\ reservas = SelectSeq([s \in 1..(MaxReservas - 1) |->
                                    [socio |-> s, clase |-> 1, estado |-> f[s],
                                     prioridad |-> s, fecha_reserva |-> 0,
                                     fecha_cancelacion |-> IF f[s] = "cancelada" THEN 0 ELSE Nulo]],
                                LAMBDA r : r.estado # "ninguna")
        /\ lista = <<>>
        /\ now = 0
        /\ lock = <<NoProc>>
        /\ pc = <<"idle">>
        /\ tx = <<TxVacio>>
        /\ ult = SinResultado
        /\ rt = RtVacio

NextDisponibilidad ==
    \/ \E p \in Procs, c \in ClaseIds : get_disponibilidad_clase(p, c)
    \/ \E p \in Procs, s \in Socios, c \in Clases : crear_reserva_llamar(p, s, c)
    \/ \E p \in Procs : crear_reserva_lock(p)
    \/ \E p \in Procs : crear_reserva_validar(p)
    \/ \E p \in Procs : crear_reserva_recheck(p)
    \/ \E p \in Procs : crear_reserva_crear(p)
    \/ Tick

SpecDisponibilidad == InitDisponibilidad /\ [][NextDisponibilidad]_vars

\* is session c bookable, read off the tables
Reservable(c) ==
    /\ clase[c].estado = "programada"
    /\ clase[c].fecha * HorasPorDia + clase[c].hora_inicio > now
    /\ FilasEnEstado(c, "confirmada") < clase[c].capacidad

\* C21: in every state esta_llena holds exactly when get_cupos_disponibles is
\* 0, and puede_reservarse holds exactly when the session is programada, starts
\* strictly after now and is not full; get_disponibilidad_clase returns these
\* values
C21_Disponibilidad ==
    /\ [](\A c \in Clases :
            /\ esta_llena(reservas, c) <=> (get_cupos_disponibles(reservas, c) = 0)
            /\ puede_reservarse(reservas, c) <=> Reservable(c))
    /\ [][\A p \in Procs, c \in Clases :
            get_disponibilidad_clase(p, c)
            => /\ ult'.vista.capacidad_total = clase[c].capacidad
               /\ ult'.vista.esta_llena <=> (ult'.vista.cupos_disponibles = 0)
               /\ ult'.vista.esta_llena <=> (FilasEnEstado(c, "confirmada") >= clase[c].capacidad)
               /\ ult'.vista.puede_reservarse <=> Reservable(c)]_vars

\* the snapshot of a scheduled session with a free seat, taken at the very
\* hour the session starts
C21_Testigo ==
    /\ ult.op = "disponibilidad" /\ ult.ok
    /\ clase[ult.rid].estado = "programada"
    /\ clase_datetime(ult.rid) = now
    /\ ult.vista.cupos_disponibles > 0
    /\ ~ult.vista.esta_llena
    /\ ~ult.vista.puede_reservarse

\* ------------- memberships of every kind, one caller at a time
\* member 1 may lack a profile; its membership is in any estado of
\* ESTADO_MEMBRESIA and ends yesterday, today or tomorrow, today being day 0 or
\* day 1; the session takes place on day 2
EstadosMembresia == {"activa", "vencida", "suspendida"}

InitMembresia ==
    \E perfil \in BOOLEAN, mem \in EstadosMembresia, fin \in -1..1, dia \in 0..1 :
        /\ clase = <<ClaseProgramada(2, 2, 10)>>
        /\ socio = [s \in Socios |->
                       IF s = 1 THEN [SocioVigente(s) EXCEPT !.perfil = perfil,
                                                             !.estado_membresia = mem,
                                                             !.fecha_fin_membresia = fin]
                       ELSE SocioVigente(s)]
        /\ reservas = <<>>
        /\ lista = <<>>
        /\ now = dia * HorasPorDia
        /\ lock = <<NoProc>>
        /\ pc = <<"idle">>
        /\ tx = <<TxVacio>>
        /\ ult = SinResultado
        /\ rt = RtVacio

NextMembresia ==
    \/ \E p \in Procs, s \in Socios, c \in Clases : crear_reserva_llamar(p, s, c)
    \/ \E p \in Procs : crear_reserva_lock(p)
    \/ \E p \in Procs : crear_reserva_validar(p)
    \/ \E p \in Procs : crear_reserva_recheck(p)
    \/ \E p \in Procs : crear_reserva_crear(p)

SpecMembresia == InitMembresia /\ [][NextMembresia]_vars

\* member s has a profile with an active membership that ends today or later
MembresiaValida(s) ==
    /\ socio[s].perfil
    /\ socio[s].estado_membresia = "activa"
    /\ socio[s].fecha_fin_membresia * HorasPorDia >= (now \div HorasPorDia) * HorasPorDia

RazonesDeMembresia == {"sin_perfil", "membresia_no_vigente"}

\* C22: the membership check passes exactly when the member has a profile
\* that is activa and ends today or later; without a profile it fails with a
\* reason of its own, different from the one given for a membership that is
\* expired or suspended; crear_reserva is refused with that reason
C22_ChequeoDeMembresia ==
    /\ [](\A s \in Socios, c \in Clases :
            LET e == MembresiaValidationStrategy(reservas, s, c)
            IN  /\ (e = <<>>) <=> MembresiaValida(s)
                /\ ~socio[s].perfil => e = <<"sin_perfil">>
                /\ (socio[s].perfil /\ ~MembresiaValida(s)) => e = <<"membresia_no_vigente">>)
    /\ [][\A p \in Procs :
            crear_reserva_validar(p)
            => IF MembresiaValida(tx[p].socio)
               THEN \A i \in 1..Len(ult'.errores) : ult'.errores[i] \notin RazonesDeMembresia
               ELSE /\ ult'.codigo = "ValidationFailed" /\ ~ult'.ok
                    /\ \E i \in 1..Len(ult'.errores) : ult'.errores[i] \in RazonesDeMembresia
                    /\ UNCHANGED reservas]_vars

\* a booking has just been refused only because the active membership ended
\* the day before
C22_Testigo ==
    /\ ult.op = "crear" /\ ult.errores = <<"membresia_no_vigente">>
    /\ socio[1].perfil /\ socio[1].estado_membresia = "activa"
    /\ socio[1].fecha_fin_membresia = Hoy - 1
    /\ Hoy = 1

\* --------------------------------------------- the timetable of the rooms
\* Clase.get_hora_fin: datetime.combine(fecha, hora_inicio) + duracion, of
\* which .time() keeps the time of day only
get_hora_fin(c) == (clase[c].hora_inicio + clase[c].duracion) % HorasPorDia

\* the scheduled sessions of the room and date whose times the code finds to
\* overlap hora_inicio..hora_fin (both times of day)
Conflictos(sala, fecha, hora_inicio, hora_fin) ==
    {c \in Clases : /\ clase[c].sala = sala
                    /\ clase[c].fecha = fecha
                    /\ clase[c].estado = "programada"
                    /\ ~(hora_inicio >= get_hora_fin(c) \/ hora_fin <= clase[c].hora_inicio)}

MaxClases == 3
Salas == 1..2
Fechas == 1..2
HorasInicio == {22, 23}
Duraciones == 1..2
HorasDelDia == 0..(HorasPorDia - 1)

ClaseEnSala(sala, fecha, hora, dur) ==
    [capacidad |-> 1, fecha |-> fecha, hora_inicio |-> hora, estado |-> "programada",
     sala |-> sala, duracion |-> dur]

\* a new Clase goes through Clase.clean and is saved when clean raises nothing
Clase_clean(p, sala, fecha, hora, dur) ==
    /\ pc[p] = "idle"
    /\ Len(clase) < MaxClases
    /\ LET nueva == ClaseEnSala(sala, fecha, hora, dur)
           hora_fin == (hora + dur) % HorasPorDia
       IN  IF fecha < Hoy
           THEN /\ ult' = [Res("clase", FALSE, "FechaPasada", <<>>, 0, "no") EXCEPT !.proc = p]
                /\ UNCHANGED <<clase, lock>>
           ELSE IF Conflictos(sala, fecha, hora, hora_fin) # {}
           THEN /\ ult' = [Res("clase", FALSE, "ConflictoDeHorario", <<>>, 0, "no") EXCEPT !.proc = p]
                /\ UNCHANGED <<clase, lock>>
           ELSE /\ clase' = Append(clase, nueva)
                /\ lock' = Append(lock, NoProc)
                /\ ult' = [Res("clase", TRUE, "ok", <<>>, Len(clase) + 1, "no") EXCEPT !.proc = p]
    /\ rt' = RtVacio
    /\ UNCHANGED <<socio, reservas, lista, now, pc, tx>>

\* ClaseRepository.verificar_conflicto_horario: (True, clase) for the first
\* overlapping session in the table's ordering, (False, None) when there is none
verificar_conflicto_horario(p, sala, fecha, hora_inicio, hora_fin) ==
    /\ pc[p] = "idle"
    /\ LET cs == Conflictos(sala, fecha, hora_inicio, hora_fin)
       IN  IF cs = {}
           THEN ult' = [Res("conflicto", FALSE, "ninguno", <<>>, 0, "no") EXCEPT !.proc = p]
           ELSE \E c \in cs :
                  /\ \A d \in cs : clase[c].hora_inicio <= clase[d].hora_inicio
                  /\ ult' = [Res("conflicto", TRUE, "conflicto", <<>>, c, "no") EXCEPT !.proc = p]
    /\ rt' = RtVacio
    /\ UNCHANGED <<clase, socio, reservas, lista, now, lock, pc, tx>>

\* one session is on the timetable
InitHorario ==
    \E sala \in Salas, fecha \in Fechas, hora \in HorasInicio, dur \in Duraciones :
        /\ clase = <<ClaseEnSala(sala, fecha, hora, dur)>>
        /\ socio = [s \in Socios |-> SocioVigente(s)]
        /\ reservas = <<>>
        /\ lista = <<>>
        /\ now = 0
        /\ lock = <<NoProc>>
        /\ pc = <<"idle">>
        /\ tx = <<TxVacio>>
        /\ ult = SinResultado
        /\ rt = RtVacio

NextHorario ==
    \/ \E p \in Procs, sala \in Salas, fecha \in Fechas, hora \in HorasInicio, dur \in Duraciones :
          Clase_clean(p, sala, fecha, hora, dur)
    \/ \E p \in Procs, sala \in Salas, fecha \in Fechas, hora \in HorasInicio, fin \in HorasDelDia :
          verificar_conflicto_horario(p, sala, fecha, hora, fin)

SpecHorario == InitHorario /\ [][NextHorario]_vars

\* do the intervals [hora, hora + dur) and that of session c overlap
SeSolapan(hora, dur, c) ==
    /\ hora < clase[c].hora_inicio + clase[c].duracion
    /\ clase[c].hora_inicio < hora + dur

HaySolape(sala, fecha, hora, dur) ==
    \E c \in Clases : /\ clase[c].sala = sala
                       /\ clase[c].fecha = fecha
                       /\ clase[c].estado = "programada"
                       /\ SeSolapan(hora, dur, c)

\* C23: a session is reported as conflicting with a scheduled session of the
\* same room and date exactly when start_A < end_B and start_B < end_A, each
\* end being start plus duration, also for durations that run past midnight
C23_ConflictoSiYSoloSiSolapan ==
    /\ [][\A p \in Procs, sala \in Salas, fecha \in Fechas, hora \in HorasInicio, dur \in Duraciones :
            Clase_clean(p, sala, fecha, hora, dur)
            => (ult'.codigo = "ConflictoDeHorario" <=> HaySolape(sala, fecha, hora, dur))]_vars
    /\ [][\A p \in Procs, sala \in Salas, fecha \in Fechas, hora \in HorasInicio, dur \in Duraciones :
            verificar_conflicto_horario(p, sala, fecha, hora, (hora + dur) % HorasPorDia)
            => (ult'.ok <=> HaySolape(sala, fecha, hora, dur))]_vars

\* C24: the end of a session whose duration reaches or crosses midnight is
\* ordered after its start
C24_FinDespuesDelInicio ==
    \A c \in Clases :
        clase[c].hora_inicio + clase[c].duracion >= HorasPorDia
        => get_hora_fin(c) > clase[c].hora_inicio

\* ------------- reservations in every estado, two concurrent callers
\* member 1 has a reservation of the one-seat session, in any estado of
\* ESTADOS_RESERVA
InitEstados ==
    \E e \in EstadosReserva :
        /\ clase = <<ClaseProgramada(1, 1, 10)>>
        /\ socio = [s \in Socios |-> SocioVigente(s)]
        /\ reservas = <<[socio |-> 1, clase |-> 1, estado |-> e, prioridad |-> 0,
                          fecha_reserva |-> 0,
                          fecha_cancelacion |-> IF e = "cancelada" THEN 0 ELSE Nulo]>>
        /\ lista = <<>>
        /\ now = 0
        /\ lock = <<NoProc>>
        /\ pc = [p \in 1..2 |-> "idle"]
        /\ tx = [p \in 1..2 |-> TxVacio]
        /\ ult = SinResultado
        /\ rt = RtVacio

\* members 1 and 2 book, cancel and join the waitlist
NextEstados ==
    \/ \E p \in Procs, s \in 1..2, c \in Clases : crear_reserva_llamar(p, s, c)
    \/ \E p \in Procs : crear_reserva_lock(p)
    \/ \E p \in Procs : crear_reserva_validar(p)
    \/ \E p \in Procs : crear_reserva_recheck(p)
    \/ \E p \in Procs : crear_reserva_crear(p)
    \/ \E p \in Procs, rid \in 1..Len(reservas), s \in 1..2 : cancelar_reserva_buscar(p, rid, s)
    \/ \E p \in Procs : cancelar_reserva_guardar(p)
    \/ \E p \in Procs : procesar_lista_espera(p)
    \/ \E p \in Procs : cancelar_reserva_commit(p)
    \/ \E p \in Procs, s \in 1..2, c \in Clases : agregar_a_lista_espera_verificar(p, s, c)
    \/ \E p \in Procs : agregar_a_lista_espera_crear(p)

SpecEstados == InitEstados /\ [][NextEstados]_vars

\* the moves of the state machine of a reservation
TransicionesPermitidas ==
    {<<"pendiente", "confirmada">>, <<"confirmada", "cancelada">>, <<"confirmada", "no_show">>}

\* C25: no reservation is ever deleted, the estado of a reservation changes
\* only along pendiente -> confirmada -> {cancelada, no_show}, and a
\* reservation that is cancelada or no_show keeps that estado through every
\* step of crear_reserva, cancelar_reserva, the promotion and
\* agregar_a_lista_espera
C25_EstadosTerminales ==
    [][/\ Len(reservas') >= Len(reservas)
       /\ \A i \in 1..Len(reservas) :
             /\ reservas'[i].estado # reservas[i].estado
                => <<reservas[i].estado, reservas'[i].estado>> \in TransicionesPermitidas
             /\ reservas[i].estado \in {"cancelada", "no_show"}
                => reservas'[i].estado = reservas[i].estado]_vars

\* a member who cancelled has just booked the session again: the cancelled
\* reservation is still there, next to the new one
C25_Testigo ==
    /\ ult.op = "crear" /\ ult.ok
    /\ \E i \in 1..Len(reservas) :
          /\ i # ult.rid
          /\ reservas[i].estado = "cancelada"
          /\ reservas[i].socio = reservas[ult.rid].socio
          /\ reservas[i].clase = reservas[ult.rid].clase
    /\ \E q \in Procs : pc[q] # "idle"

\* ------------- members of different tenure, two sessions, one caller at a time
\* every member joined today or yesterday; both sessions have one seat;
\* members 1 and 2 book and join the waitlists
InitPrioridad ==
    \E dj \in [Socios -> Tenencias] :
        /\ clase = [c \in 1..2 |-> ClaseProgramada(1, 1, 10)]
        /\ socio = [s \in Socios |-> [SocioVigente(s) EXCEPT !.date_joined = 0 - dj[s]]]
        /\ reservas = <<>>
        /\ lista = <<>>
        /\ now = 0
        /\ lock = [c \in 1..2 |-> NoProc]
        /\ pc = <<"idle">>
        /\ tx = <<TxVacio>>
        /\ ult = SinResultado
        /\ rt = RtVacio

NextPrioridad ==
    \/ \E p \in Procs, s \in 1..2, c \in Clases : crear_reserva_llamar(p, s, c)
    \/ \E p \in Procs : crear_reserva_lock(p)
    \/ \E p \in Procs : crear_reserva_validar(p)
    \/ \E p \in Procs : crear_reserva_recheck(p)
    \/ \E p \in Procs : crear_reserva_crear(p)
    \/ \E p \in Procs, s \in 1..2, c \in Clases : agregar_a_lista_espera_verificar(p, s, c)
    \/ \E p \in Procs : agregar_a_lista_espera_crear(p)

SpecPrioridad == InitPrioridad /\ [][NextPrioridad]_vars

\* days since member s joined, and the member's confirmed reservations
DiasDeSocio(s) == (now \div HorasPorDia) - socio[s].date_joined

ReservasPrevias(s) ==
    Cardinality({i \in 1..Len(reservas) :
                    reservas[i].socio = s /\ reservas[i].estado = "confirmada"})

\* C26: the reservation a successful crear_reserva creates and the entry a
\* successful agregar_a_lista_espera creates carry prioridad = days since the
\* member joined + 10 * the member's confirmed reservations before the step; a
\* member of longer tenure with prior confirmed reservations is computed a
\* strictly greater priority than a newer member with none
C26_FormulaDePrioridad ==
    /\ [][/\ (ult'.op = "crear" /\ ult'.ok)
             => reservas'[ult'.rid].prioridad
                    = DiasDeSocio(reservas'[ult'.rid].socio)
                      + 10 * ReservasPrevias(reservas'[ult'.rid].socio)
          /\ (ult'.op = "espera" /\ ult'.ok)
             => lista'[ult'.rid].prioridad
                    = DiasDeSocio(lista'[ult'.rid].socio)
                      + 10 * ReservasPrevias(lista'[ult'.rid].socio)]_vars
    /\ [](\A s, t \in Socios :
            (/\ DiasDeSocio(s) > DiasDeSocio(t)
             /\ ReservasPrevias(s) > 0
             /\ ReservasPrevias(t) = 0)
            => CalcularPrioridad(reservas, s) > CalcularPrioridad(reservas, t))

\* a member who joined yesterday and holds a confirmed reservation has just
\* joined the waitlist of the other session, which a member who joined today
\* has booked
C26_Testigo ==
    /\ ult.op = "espera" /\ ult.ok
    /\ lista[ult.rid].prioridad = 11
    /\ \E i \in 1..Len(reservas) :
          /\ reservas[i].clase = lista[ult.rid].clase
          /\ reservas[i].estado = "confirmada"
          /\ reservas[i].prioridad = 0

\* ------------- two sessions, two concurrent callers
\* two sessions of one seat; member 1 books, cancels and joins the waitlist
\* of both, caller 1 carrying the requests about session 1 and caller 2 those
\* about session 2
InitDosClases == InitCon(2, <<ClaseProgramada(1, 1, 10), ClaseProgramada(1, 1, 10)>>)

NextDosClases ==
    \/ \E p \in Procs : crear_reserva_llamar(p, 1, p)
    \/ \E p \in Procs : crear_reserva_lock(p)
    \/ \E p \in Procs : crear_reserva_validar(p)
    \/ \E p \in Procs : crear_reserva_recheck(p)
    \/ \E p \in Procs : crear_reserva_crear(p)
    \/ \E p \in Procs, rid \in 1..Len(reservas) :
          reservas[rid].clase = p /\ cancelar_reserva_buscar(p, rid, 1)
    \/ \E p \in Procs : cancelar_reserva_guardar(p)
    \/ \E p \in Procs : procesar_lista_espera(p)
    \/ \E p \in Procs : cancelar_reserva_commit(p)
    \/ \E p \in Procs : agregar_a_lista_espera_verificar(p, 1, p)
    \/ \E p \in Procs : agregar_a_lista_espera_crear(p)

SpecDosClases == InitDosClases /\ [][NextDosClases]_vars

\* what the tables hold about session c
DatosDeClase(rs, ls, c) ==
    <<{<<i, rs[i]>> : i \in {k \in 1..Len(rs) : rs[k].clase = c}},
      {<<i, ls[i]>> : i \in {k \in 1..Len(ls) : ls[k].clase = c}},
      get_cupos_disponibles(rs, c)>>

\* the next step of the call worker p is running
PasoDe(p) ==
    \/ crear_reserva_lock(p)
    \/ crear_reserva_validar(p)
    \/ crear_reserva_recheck(p)
    \/ crear_reserva_crear(p)
    \/ cancelar_reserva_guardar(p)
    \/ procesar_lista_espera(p)
    \/ cancelar_reserva_commit(p)
    \/ agregar_a_lista_espera_crear(p)

\* C27: a step changes the reservations, waitlist entries or free seats of a
\* session only when it is a step of a call working on that session, and a
\* call can take its next step whenever every other call under way works on
\* another session
C27_ClasesIndependientes ==
    /\ [][\A c \in Clases :
            DatosDeClase(reservas', lista', c) # DatosDeClase(reservas, lista, c)
            => \E p \in Procs : /\ pc[p] # "idle"
                                /\ pc'[p] # pc[p]
                                /\ tx[p].clase = c]_vars
    /\ [](\A p \in Procs :
            (/\ pc[p] # "idle"
             /\ \A q \in Procs \ {p} : pc[q] # "idle" => tx[q].clase # tx[p].clase)
            => ENABLED PasoDe(p))

\* one caller holds the lock of a session while the other takes the lock of
\* the other session
C27_Testigo ==
    /\ lock[1] # NoProc /\ lock[2] # NoProc /\ lock[1] # lock[2]
    /\ \E i \in 1..Len(reservas) : reservas[i].estado = "confirmada"

\* ------------- the failure values of the three operations
\* the failures that are returned to the caller as a value with a message
FallosDevueltos ==
    {"NotFound", "ValidationFailed", "CapacityExceeded", "ErrorAlCrear",
     "InvalidState", "TooLate", "NotFull", "Duplicate"}

\* C28: a crear_reserva, cancelar_reserva or agregar_a_lista_espera call that
\* does not succeed returns a failure value with a reason (a non-empty list of
\* reasons when the validation failed); none ends by raising
C28_RechazoConRazon ==
    (ult.op \in {"crear", "cancelar", "espera"} /\ ~ult.ok) =>
        /\ ult.codigo \in FallosDevueltos
        /\ ult.codigo = "ValidationFailed" => ult.errores # <<>>

\* C29: the entry a promotion selects is determined by the reservations and
\* the waitlist entries alone: whenever the promotion selects an entry, no
\* other entry could have been selected from the same state, also when two
\* entries have the same prioridad and the same fecha_registro
C29_PromocionDeterminista ==
    [][\A p \in Procs :
        (procesar_lista_espera(p) /\ tx'[p].sig # 0)
        => Siguientes(lista, tx[p].clase) = {tx'[p].sig}]_vars

\* C30: a promotion that has checked the free seats and is about to create the
\* promoted reservation holds the lock of the session, so it is never between
\* its check and its write while a crear_reserva on the same session is
\* between its own
C30_PromocionBajoLock ==
    \A p \in Procs :
        (pc[p] = "ca_commit" /\ tx[p].sig # 0)
        => /\ lock[tx[p].clase] = p
           /\ \A q \in Procs \ {p} :
                 ~(/\ pc[q] \in {"cr_recheck", "cr_crear"}
                   /\ tx[q].clase = tx[p].clase)

\* ------------- the critical section of crear_reserva
\* worker p is between the session lookup and the end of its crear_reserva
EnSeccionCritica(p) == pc[p] \in {"cr_validar", "cr_recheck", "cr_crear"}

\* C31: of the crear_reserva calls on one session at most one is between its
\* session lookup and its return, and that one holds the lock of the session;
\* a call enters its validation only when no other call on the session has a
\* reservation still to write, so the rows it reads include theirs
C31_ExclusionMutua ==
    /\ [](\A p \in Procs :
            EnSeccionCritica(p)
            => /\ lock[tx[p].clase] = p
               /\ \A q \in Procs \ {p} :
                     EnSeccionCritica(q) => tx[q].clase # tx[p].clase)
    /\ [][\A p \in Procs :
            crear_reserva_lock(p)
            => \A q \in Procs \ {p} :
                  ~(EnSeccionCritica(q) /\ tx[q].clase = tx[p].clase)]_vars

\* one caller is about to insert its reservation, after another has
\* committed its own, while a third waits for the lock
C31_Testigo ==
    /\ \E p, q \in Procs :
          /\ pc[p] = "cr_crear" /\ pc[q] = "cr_lock"
          /\ tx[p].clase = tx[q].clase
          /\ lock[tx[p].clase] = p
    /\ Len(reservas) = 1

\* ------------- concurrent callers under fair scheduling
\* a request that can run is run; a request waiting for a row is granted the
\* row when it is released often enough (the database queues the waiters)
PasosSinEspera(p) ==
    \/ crear_reserva_validar(p)
    \/ crear_reserva_recheck(p)
    \/ crear_reserva_crear(p)
    \/ procesar_lista_espera(p)
    \/ cancelar_reserva_commit(p)
    \/ agregar_a_lista_espera_crear(p)

Justicia ==
    \A p \in 1..NumProcs :
        /\ WF_vars(PasosSinEspera(p))
        /\ SF_vars(crear_reserva_lock(p))
        /\ SF_vars(cancelar_reserva_guardar(p))

\* one session of one seat; callers 1 and 2 carry the bookings of members 1
\* and 2 and the cancellations of their reservations, caller 3 the waitlist
\* requests of member 2
NextJusto ==
    \/ \E p \in 1..2, s \in 1..2, c \in ClaseIds : crear_reserva_llamar(p, s, c)
    \/ \E p \in Procs : crear_reserva_lock(p)
    \/ \E p \in Procs : crear_reserva_validar(p)
    \/ \E p \in Procs : crear_reserva_recheck(p)
    \/ \E p \in Procs : crear_reserva_crear(p)
    \/ \E p \in 1..2, rid \in 1..Len(reservas) : cancelar_reserva_buscar(p, rid, reservas[rid].socio)
    \/ \E p \in Procs : cancelar_reserva_guardar(p)
    \/ \E p \in Procs : procesar_lista_espera(p)
    \/ \E p \in Procs : cancelar_reserva_commit(p)
    \/ \E c \in Clases : agregar_a_lista_espera_verificar(3, 2, c)
    \/ \E p \in Procs : agregar_a_lista_espera_crear(p)

SpecJusto == Init /\ [][NextJusto]_vars /\ Justicia

C33_UnaSolaCancelacion ==
    [][\A p \in Procs :
        (/\ tx[p].op = "cancelar"
         /\ pc'[p] = "idle"
         /\ reservas[tx[p].rid].estado # "confirmada")
        => /\ ult'.codigo = "InvalidState"
           /\ reservas' = reservas
           /\ lista' = lista]_vars

\* ------------- promotions that find nothing to do
\* the promotion of worker p finds no free seat in the session
SinCupoLibre(p) ==
    Cardinality({i \in 1..Len(reservas) :
                    /\ i # tx[p].rid
                    /\ reservas[i].clase = tx[p].clase
                    /\ reservas[i].estado = "confirmada"}) >= clase[tx[p].clase].capacidad

\* the session of worker p has no waitlist entry with notificado = False
SinEntradaPendiente(p) ==
    ~\E i \in 1..Len(lista) : lista[i].clase = tx[p].clase /\ ~lista[i].notificado

\* C34: a promotion that finds no free seat, or no waitlist entry with
\* notificado = False, selects no entry, and the cancellation then writes its
\* own row only: no other reservation and no waitlist entry changes
C34_PromocionSinEfecto ==
    /\ [][\A p \in Procs :
            (procesar_lista_espera(p) /\ (SinCupoLibre(p) \/ SinEntradaPendiente(p)))
            => tx'[p].sig = 0]_vars
    /\ [][\A p \in Procs :
            (cancelar_reserva_commit(p) /\ tx[p].sig = 0)
            => /\ lista' = lista
               /\ Len(reservas') = Len(reservas)
               /\ \A i \in 1..Len(reservas) : i # tx[p].rid => reservas'[i] = reservas[i]
               /\ ult'.promo = "no"]_vars

C34_Testigo ==
    \E p \in Procs :
        /\ pc[p] = "ca_commit"
        /\ tx[p].sig = 0
        /\ SinCupoLibre(p)
        /\ ~SinEntradaPendiente(p)

\* ------------- what one cancellation may promote
\* the waitlist entries that the step marks notified
Promovidas == {i \in 1..Len(lista) : ~lista[i].notificado /\ lista'[i].notificado}

\* C35: a cancellation promotes at most one waitlist entry, the entry it
\* promotes had notificado = False, a notified entry stays notified, and the
\* session has no more confirmed reservations after the cancellation than
\* before it
C35_UnaPromocionPorCancelacion ==
    /\ [][\A p \in Procs :
            cancelar_reserva_commit(p)
            => /\ Cardinality(Promovidas) <= 1
               /\ Len(reservas') <= Len(reservas) + 1
               /\ ult'.promo = "si" => ~lista[tx[p].sig].notificado
               /\ Cardinality(ConfirmadasClase(reservas', tx[p].clase))
                     <= Cardinality(ConfirmadasClase(reservas, tx[p].clase))]_vars
    /\ [][\A i \in 1..Len(lista) : lista[i].notificado => lista'[i].notificado]_vars

\* ------------- what a cancellation writes
\* C36: a cancellation changes the estado and the fecha_cancelacion of its
\* reservation and nothing else: the prioridad, the member, the session and
\* the creation timestamp of every stored reservation stay as they were
\* written at creation, also when the prioridad computed at creation is 0
C36_PrioridadFija ==
    [][\A p \in Procs :
        cancelar_reserva_commit(p)
        => \A i \in 1..Len(reservas) :
              /\ reservas'[i].prioridad = reservas[i].prioridad
              /\ reservas'[i].socio = reservas[i].socio
              /\ reservas'[i].clase = reservas[i].clase
              /\ reservas'[i].fecha_reserva = reservas[i].fecha_reserva]_vars

\* ------------- the second capacity check of crear_reserva
\* C37: a crear_reserva that has passed validate_all also passes its second
\* capacity check: no call returns the CapacityExceeded result
C37_SegundoChequeoNuncaFalla ==
    /\ ult.codigo # "CapacityExceeded"
    /\ \A p \in Procs :
          pc[p] = "cr_recheck" => get_cupos_disponibles(reservas, tx[p].clase) > 0

\* ------------- who a promotion confirms
\* one session of one seat, booked by member 1; member 2 has a profile or
\* none, a membership in any estado that ends yesterday, today or tomorrow,
\* today being day 0 or day 1; the session takes place on day 2
InitPromocion ==
    \E perfil \in BOOLEAN, mem \in EstadosMembresia, fin \in -1..1, dia \in 0..1 :
        /\ clase = <<ClaseProgramada(1, 2, 10)>>
        /\ socio = [s \in Socios |->
                       IF s = 2 THEN [SocioVigente(s) EXCEPT !.perfil = perfil,
                                                             !.estado_membresia = mem,
                                                             !.fecha_fin_membresia = fin]
                       ELSE SocioVigente(s)]
        /\ reservas = <<[socio |-> 1, clase |-> 1, estado |-> "confirmada",
                          prioridad |-> 1, fecha_reserva |-> 0,
                          fecha_cancelacion |-> Nulo]>>
        /\ lista = <<>>
        /\ now = dia * HorasPorDia
        /\ lock = <<NoProc>>
        /\ pc = <<"idle">>
        /\ tx = <<TxVacio>>
        /\ ult = SinResultado
        /\ rt = RtVacio

\* the members book, join the waitlist and cancel their own reservations
NextPromocion ==
    \/ \E p \in Procs, s \in Socios, c \in Clases : crear_reserva_llamar(p, s, c)
    \/ \E p \in Procs : crear_reserva_lock(p)
    \/ \E p \in Procs : crear_reserva_validar(p)
    \/ \E p \in Procs : crear_reserva_recheck(p)
    \/ \E p \in Procs : crear_reserva_crear(p)
    \/ \E p \in Procs, rid \in 1..Len(reservas) :
          cancelar_reserva_buscar(p, rid, reservas[rid].socio)
    \/ \E p \in Procs : cancelar_reserva_guardar(p)
    \/ \E p \in Procs : procesar_lista_espera(p)
    \/ \E p \in Procs : cancelar_reserva_commit(p)
    \/ \E p \in Procs, s \in Socios, c \in Clases : agregar_a_lista_espera_verificar(p, s, c)
    \/ \E p \in Procs : agregar_a_lista_espera_crear(p)

SpecPromocion == InitPromocion /\ [][NextPromocion]_vars

\* C38: whenever a confirmed reservation is created, by crear_reserva or by a
\* promotion, its member has a valid membership and its session is programada
\* and starts after now
C38_ConfirmadaSoloSiElegible ==
    [][Len(reservas') > Len(reservas)
        => LET r == reservas'[Len(reservas')]
           IN  /\ MembresiaValida(r.socio)
               /\ clase[r.clase].estado = "programada"
               /\ clase[r.clase].fecha * HorasPorDia + clase[r.clase].hora_inicio > now]_vars

\* ------------- booked and waiting at once
\* C39: no member has a confirmed reservation of a session and a waitlist
\* entry with notificado = False of the same session
C39_ConfirmadaOEnEspera ==
    \A i \in 1..Len(reservas), j \in 1..Len(lista) :
        ~(/\ reservas[i].estado = "confirmada"
          /\ ~lista[j].notificado
          /\ lista[j].socio = reservas[i].socio
          /\ lista[j].clase = reservas[i].clase)

\* ------------- joining a waitlist again
\* member s was promoted from the waitlist of session c and has cancelled the
\* reservation: the entry is notified and s holds no confirmed reservation of c
PromovidoYCancelado(s, c) ==
    /\ \E j \in 1..Len(lista) : lista[j].socio = s /\ lista[j].clase = c
    /\ \A j \in 1..Len(lista) :
          (lista[j].socio = s /\ lista[j].clase = c) => lista[j].notificado
    /\ \E i \in 1..Len(reservas) :
          reservas[i].socio = s /\ reservas[i].clase = c /\ reservas[i].estado = "cancelada"
    /\ \A i \in 1..Len(reservas) :
          (reservas[i].socio = s /\ reservas[i].clase = c) => reservas[i].estado # "confirmada"

\* C40: a member who was promoted from the waitlist of a session and has
\* cancelled that reservation is not refused as Duplicate when asking to join
\* the waitlist of the session again
C40_VuelveALaLista ==
    [][\A p \in Procs, s \in Socios, c \in Clases :
        (agregar_a_lista_espera_verificar(p, s, c) /\ PromovidoYCancelado(s, c))
        => ult'.codigo # "Duplicate"]_vars
====
